---- MODULE Spec2Model ----
(***************************************************************************)
(* The topic taxonomy consolidation engine (src/topic_consolidator.py):    *)
(* TopicConsolidator with its store (topic_mapping, canonical_topics), the *)
(* two Gemini requests it sends, and the daily operations that use it.     *)
(*                                                                         *)
(* A Python string is a sequence of tokens: a word token ("A", "B") stands *)
(* for a run of ordinary characters, " " for white space and "\"" for a    *)
(* quote character, so that str.strip() is computed, not assumed.          *)
(*                                                                         *)
(* An exception that leaves consolidate_topics keeps what the call had     *)
(* already stored: the engine object lives on in that state.               *)
(***************************************************************************)
EXTENDS Naturals, Integers, Sequences, FiniteSets, TLC

\* topic_mapping, canonical_topics: the engine's store.
\* op, path: the public method called last and the branch it took.
\* new_topics, ret, raised, requests: that call's batch, the mapping it
\*   returned, whether an exception left it, and the requests it sent.
\* presented, first_ret: every raw topic passed to consolidate_topics so far
\*   and what was returned for it the first time.
\* extraction_results, mapped_results: argument and result of apply_mapping.
\* topic_frequencies: the TrendAnalyzer's table, topic -> date -> count.
\* current_date: main's loop variable, in days after start_date.
\* held_mapping, held_topics: the objects a caller got from get_topic_mapping
\*   and get_canonical_topics, each with its value and whether it is the
\*   engine's own object.
\* all_reviews, reviews_by_date: the reviews the scraper fetched and the
\*   table of daily lists it returns.
\* report: the last call of get_trending_topics or get_emerging_topics, with
\*   its arguments and its result.
VARIABLES topic_mapping, canonical_topics,
          op, path, new_topics, ret, raised, requests,
          presented, first_ret, extraction_results, mapped_results,
          topic_frequencies, current_date, held_mapping, held_topics,
          all_reviews, reviews_by_date, report

vars == <<topic_mapping, canonical_topics, op, path, new_topics, ret, raised,
          requests, presented, first_ret, extraction_results, mapped_results,
          topic_frequencies, current_date, held_mapping, held_topics,
          all_reviews, reviews_by_date, report>>

\* ------------------------------------------------------------------ bounds
\* Largest number of key/value pairs in the JSON object of a bootstrap answer.
MaxPairs == 2

\* Days of main's window that the model runs through (the program's window
\* is lookback_days + 1 days long).
MaxDays == 2

\* Largest number of reviews the store hands to the scraper.
MaxReviews == 3

\* Days of data given to the analyzer before reports are asked for, and the
\* largest top_n asked for.
MaxTrendDays == 3
MaxTopN == 2

\* ----------------------------------------------------------------- strings
Str(w) == <<w>>
EmptyStr == <<>>
WS == " "
DQ == "\""
\* str.strip() removes white space; str.strip('"\'') removes quote characters.
Whitespace == {WS}
QuoteChars == {DQ, "'"}

\* The raw topics that callers present, and the names the matcher may answer
\* with: the raw topics and one name no caller presents.
RawTopics == {Str("A"), Str("B")}
Topics == RawTopics \cup {Str("C")}
\* A JSON value that is not a string and not hashable in Python (an array).
JsonList == <<"[", "]">>

RECURSIVE LStrip(_, _)
LStrip(s, chars) ==
    IF s # <<>> /\ Head(s) \in chars THEN LStrip(Tail(s), chars) ELSE s

RECURSIVE RStrip(_, _)
RStrip(s, chars) ==
    IF s # <<>> /\ s[Len(s)] \in chars
    THEN RStrip(SubSeq(s, 1, Len(s) - 1), chars)
    ELSE s

\* Python's str.strip(chars).
Strip(s, chars) == RStrip(LStrip(s, chars), chars)

\* response.text.strip().strip('"\'')
CleanAnswer(text) == Strip(Strip(text, Whitespace), QuoteChars)

\* -------------------------------------------------------------- dictionaries
EmptyDict == <<>>

\* d[k] = v of a Python dict: the key is added or its value replaced.
DictSet(d, k, v) == [x \in DOMAIN d \cup {k} |-> IF x = k THEN v ELSE d[x]]

Range(d) == {d[k] : k \in DOMAIN d}

\* dict.get(k, default)
Get(d, k, default) == IF k \in DOMAIN d THEN d[k] ELSE default

\* A dict built from key/value pairs in order (json.loads of an object keeps
\* the last value of a repeated key).
RECURSIVE PairsToDict(_)
PairsToDict(pairs) ==
    IF pairs = <<>> THEN EmptyDict
    ELSE LET n == Len(pairs)
         IN  DictSet(PairsToDict(SubSeq(pairs, 1, n - 1)), pairs[n][1], pairs[n][2])

\* The orders in which a set may be iterated.
Orders(S) == {o \in [1..Cardinality(S) -> S] : \A i, j \in 1..Cardinality(S) : o[i] = o[j] => i = j}

\* ---------------------------------------------------------- the matcher
\* A reply to the single-topic request: generate_content or response.text
\* raised (ok = FALSE), or a text.
Fail == [ok |-> FALSE, text |-> EmptyStr]
\* Bare names, the empty text, and a name in quotes and white space both ways
\* round: ' "A" ' is cleaned to 'A', '" A "' to ' A '.
AnswerTexts == {EmptyStr} \cup Topics
               \cup {<<WS, DQ, "A", DQ, WS>>, <<DQ, WS, "A", WS, DQ>>, <<DQ, DQ>>}
Answers == {Fail} \cup {[ok |-> TRUE, text |-> t] : t \in AnswerTexts}

\* A reply to the whole-batch request, as far as json.loads gets: an exception
\* anywhere in the try block ("error"), a JSON object with its pairs in
\* order ("object"), or any other JSON value ("other").
Values == Topics \cup {EmptyStr, JsonList}
PairSeqs(n) == {ps \in [1..n -> Topics \X Values] :
                    \A i, j \in 1..n : ps[i][1] = ps[j][1] => i = j}
Responses == {[kind |-> "error", pairs |-> <<>>], [kind |-> "other", pairs |-> <<>>]}
             \cup {[kind |-> "object", pairs |-> ps] :
                       ps \in UNION {PairSeqs(n) : n \in 0..MaxPairs}}

\* A request sent to the model during a call: the topics it asks about, the
\* canonical topics it offers, and what came back ("error", a "text", a JSON
\* "object" or an "other" JSON value).
Request(kind, topics, candidates, outcome, text) ==
    [kind |-> kind, topics |-> topics, candidates |-> candidates,
     outcome |-> outcome, text |-> text]

\* ------------------------------------------------------ TopicConsolidator
\* _create_initial_taxonomy: the value returned for the list `topics`.
CreateInitialTaxonomy(topics, response) ==
    IF topics = <<>> THEN [is_dict |-> TRUE, pairs |-> <<>>]
    ELSE CASE response.kind = "error" ->
                [is_dict |-> TRUE, pairs |-> [i \in 1..Len(topics) |-> <<topics[i], topics[i]>>]]
           [] response.kind = "object" ->
                [is_dict |-> TRUE, pairs |-> response.pairs]
           [] OTHER ->
                [is_dict |-> FALSE, pairs |-> <<>>]

\* Python can put v in a set.
Hashable(v) == v # JsonList

\* _update_taxonomy: the store after the loop over mapping.items(), or at
\* the statement that raised.
RECURSIVE UpdatePairs(_, _, _)
UpdatePairs(tm, ct, pairs) ==
    IF pairs = <<>> THEN [tm |-> tm, ct |-> ct, raised |-> FALSE]
    ELSE LET original == Head(pairs)[1]
             canonical == Head(pairs)[2]
             tm1 == DictSet(tm, original, canonical)
         IN  IF Hashable(canonical)
             THEN UpdatePairs(tm1, ct \cup {canonical}, Tail(pairs))
             ELSE [tm |-> tm1, ct |-> ct, raised |-> TRUE]

\* _update_taxonomy making the reply the whole table and its values the whole
\* set.
UpdateTaxonomyReplaces(tm, ct, mapping) ==
    IF mapping.is_dict
    THEN LET upd == UpdatePairs(EmptyDict, {}, mapping.pairs)
         IN  [tm |-> upd.tm, ct |-> upd.ct, raised |-> upd.raised]
    ELSE [tm |-> tm, ct |-> ct, raised |-> TRUE]

\* _update_taxonomy with setdefault: a recorded topic keeps its value.
UpdateTaxonomyKeepsRecorded(tm, ct, mapping) ==
    IF mapping.is_dict
    THEN LET upd == UpdatePairs(tm, ct, mapping.pairs)
         IN  [upd EXCEPT !.tm = [k \in DOMAIN upd.tm |->
                                    IF k \in DOMAIN tm THEN tm[k] ELSE upd.tm[k]]]
    ELSE [tm |-> tm, ct |-> ct, raised |-> TRUE]

\* _update_taxonomy adding the original topics, not their canonical topics,
\* to the set.
UpdateTaxonomyAddsOriginals(tm, ct, mapping) ==
    IF mapping.is_dict
    THEN LET upd == UpdatePairs(tm, ct, mapping.pairs)
         IN  [upd EXCEPT !.ct = ct \cup {mapping.pairs[i][1] : i \in 1..Len(mapping.pairs)}]
    ELSE [tm |-> tm, ct |-> ct, raised |-> TRUE]

UpdateTaxonomy(tm, ct, mapping) ==
    IF mapping.is_dict THEN UpdatePairs(tm, ct, mapping.pairs)
    ELSE [tm |-> tm, ct |-> ct, raised |-> TRUE]

\* _find_canonical_topic without the validation of lines 197-203.
FindCanonicalTopicUnchecked(ct, new_topic, answer) ==
    IF ct = {} THEN new_topic
    ELSE IF ~answer.ok THEN new_topic
    ELSE CleanAnswer(answer.text)

\* _find_canonical_topic: the canonical topic chosen for new_topic.
FindCanonicalTopic(ct, new_topic, answer) ==
    IF ct = {} THEN new_topic
    ELSE IF ~answer.ok THEN new_topic
    ELSE LET canonical == CleanAnswer(answer.text)
         IN  IF canonical \in ct \/ canonical = new_topic
             THEN canonical
             ELSE new_topic

\* The loop body without the reuse of line 57: every topic is sent to the
\* matcher, recorded or not.
LoopBodyAlwaysAsks(st, topic, answer) ==
    LET reply == IF topic \in DOMAIN st.tm THEN Fail ELSE answer
        canonical == IF topic \in DOMAIN st.tm THEN st.tm[topic]
                     ELSE FindCanonicalTopic(st.ct, topic, reply)
    IN  [tm |-> DictSet(st.tm, topic, canonical),
         ct |-> st.ct \cup {canonical},
         mapping |-> DictSet(st.mapping, topic, canonical),
         reqs |-> Append(st.reqs, Request("match", {topic}, st.ct,
                                          IF reply.ok THEN "text" ELSE "error",
                                          reply.text))]

\* The loop body adding the raw topic to the canonical topics whatever the
\* matcher chose.
LoopBodyAddsRaw(st, topic, answer) ==
    IF topic \in DOMAIN st.tm
    THEN [st EXCEPT !.mapping = DictSet(@, topic, st.tm[topic])]
    ELSE LET canonical == FindCanonicalTopic(st.ct, topic, answer)
         IN  [tm |-> DictSet(st.tm, topic, canonical),
              ct |-> st.ct \cup {canonical, topic},
              mapping |-> DictSet(st.mapping, topic, canonical),
              reqs |-> Append(st.reqs,
                              Request("match", {topic}, st.ct,
                                      IF answer.ok THEN "text" ELSE "error",
                                      answer.text))]

\* The loop body without the canonical_topics.add of line 64: every topic of
\* the call is matched against the canonical topics the call started with.
LoopBodyStaleCandidates(st, topic, answer) ==
    IF topic \in DOMAIN st.tm
    THEN [st EXCEPT !.mapping = DictSet(@, topic, st.tm[topic])]
    ELSE LET canonical == FindCanonicalTopic(st.ct, topic, answer)
         IN  [tm |-> DictSet(st.tm, topic, canonical),
              ct |-> st.ct,
              mapping |-> DictSet(st.mapping, topic, canonical),
              reqs |-> Append(st.reqs,
                              Request("match", {topic}, st.ct,
                                      IF answer.ok THEN "text" ELSE "error",
                                      answer.text))]

\* One iteration of the loop of consolidate_topics.
LoopBody(st, topic, answer) ==
    IF topic \in DOMAIN st.tm
    THEN [st EXCEPT !.mapping = DictSet(@, topic, st.tm[topic])]
    ELSE LET canonical == FindCanonicalTopic(st.ct, topic, answer)
         IN  [tm |-> DictSet(st.tm, topic, canonical),
              ct |-> st.ct \cup {canonical},
              mapping |-> DictSet(st.mapping, topic, canonical),
              reqs |-> IF st.ct = {} THEN st.reqs
                       ELSE Append(st.reqs,
                                   Request("match", {topic}, st.ct,
                                           IF answer.ok THEN "text" ELSE "error",
                                           answer.text))]

\* The loop of consolidate_topics over the batch in iteration order.
RECURSIVE Loop(_, _, _)
Loop(st, order, answers) ==
    IF order = <<>> THEN st
    ELSE Loop(LoopBody(st, Head(order), Get(answers, Head(order), Fail)),
              Tail(order), answers)

\* What a caller saw returned for a topic of a batch: its value, or NoValue
\* when the call raised or returned a mapping without it.
NoValue == <<"<none>">>
Returned(d, failed, t) == IF ~failed /\ t \in DOMAIN d THEN d[t] ELSE NoValue

Record(batch, d, failed) ==
    /\ presented' = presented \cup batch
    /\ first_ret' = [t \in presented \cup batch |->
                        IF t \in presented THEN first_ret[t] ELSE Returned(d, failed, t)]

\* apply_mapping with a comprehension that keeps only the recorded topics.
ApplyMappingRecordedOnly(tm, results) ==
    [i \in 1..Len(results) |->
        [review_id |-> results[i].review_id,
         topics |-> SelectSeq([j \in 1..Len(results[i].topics) |->
                                  Get(tm, results[i].topics[j], NoValue)],
                              LAMBDA v : v # NoValue),
         content |-> Get(results[i], "content", EmptyStr),
         reasoning |-> Get(results[i], "reasoning", EmptyStr)]]

\* apply_mapping: the list it returns.
ApplyMapping(tm, results) ==
    [i \in 1..Len(results) |->
        [review_id |-> results[i].review_id,
         topics |-> [j \in 1..Len(results[i].topics) |->
                        Get(tm, results[i].topics[j], results[i].topics[j])],
         content |-> Get(results[i], "content", EmptyStr),
         reasoning |-> Get(results[i], "reasoning", EmptyStr)]]

\* Extraction records as the extractor builds them, and one without the
\* optional keys.
FullResult(id, topics) ==
    [review_id |-> Str(id), topics |-> topics,
     content |-> Str("text"), reasoning |-> Str("why")]
BareResult(id, topics) == [review_id |-> Str(id), topics |-> topics]
TopicLists == {<<>>, <<Str("A")>>, <<Str("A"), Str("B")>>,
               <<Str("B"), Str("C"), Str("B")>>}
ExtractionInputs ==
    {<<>>} \cup {<<FullResult("r1", l)>> : l \in TopicLists}
    \cup {<<BareResult("r1", <<Str("B")>>), FullResult("r2", <<Str("A"), Str("B")>>)>>}

\* The batches handed to consolidate_topics.
Batches == SUBSET RawTopics

\* A reference held by a caller: none taken yet, or an object with its value
\* that is (alias) or is not the object the engine itself holds.
NoDict == [taken |-> FALSE, alias |-> FALSE, value |-> EmptyDict]
NoSet == [taken |-> FALSE, alias |-> FALSE, value |-> {}]

\* What a step of the engine does to the objects a caller holds: an object
\* that is the engine's own shows the engine's new value, a copy keeps its own.
TrackAliases ==
    /\ held_mapping' = IF held_mapping.alias
                       THEN [held_mapping EXCEPT !.value = topic_mapping']
                       ELSE held_mapping
    /\ held_topics' = IF held_topics.alias
                      THEN [held_topics EXCEPT !.value = canonical_topics']
                      ELSE held_topics

\* A call on the consolidator alone: the analyzer and main's loop are not
\* involved.
ConsolidatorOnly ==
    /\ TrackAliases
    /\ UNCHANGED <<topic_frequencies, current_date>>
    /\ UNCHANGED <<all_reviews, reviews_by_date, report>>

\* No report has been asked for yet.
NoReport == [fn |-> "none"]

Init ==
    /\ topic_mapping = EmptyDict
    /\ canonical_topics = {}
    /\ op = "init"
    /\ path = "none"
    /\ new_topics = {}
    /\ ret = EmptyDict
    /\ raised = FALSE
    /\ requests = <<>>
    /\ presented = {}
    /\ first_ret = EmptyDict
    /\ extraction_results = <<>>
    /\ mapped_results = <<>>
    /\ topic_frequencies = EmptyDict
    /\ current_date = 0
    /\ held_mapping = NoDict
    /\ held_topics = NoSet
    /\ all_reviews = <<>>
    /\ reviews_by_date = EmptyDict
    /\ report = NoReport

\* consolidate_topics with an empty batch, returning the whole table.
ConsolidateEmptyReturnsAll ==
    /\ op' = "consolidate_topics"
    /\ path' = "empty"
    /\ new_topics' = {}
    /\ ret' = topic_mapping
    /\ raised' = FALSE
    /\ requests' = <<>>
    /\ extraction_results' = <<>>
    /\ mapped_results' = <<>>
    /\ UNCHANGED <<topic_mapping, canonical_topics, presented, first_ret>>
    /\ ConsolidatorOnly

\* consolidate_topics with an empty batch.
ConsolidateEmpty ==
    /\ op' = "consolidate_topics"
    /\ path' = "empty"
    /\ new_topics' = {}
    /\ ret' = EmptyDict
    /\ raised' = FALSE
    /\ requests' = <<>>
    /\ extraction_results' = <<>>
    /\ mapped_results' = <<>>
    /\ UNCHANGED <<topic_mapping, canonical_topics, presented, first_ret>>
    /\ ConsolidatorOnly

\* consolidate_topics with no canonical topic yet: one request for the batch.
ConsolidateBootstrap ==
    \E batch \in Batches \ {{}} : \E order \in Orders(batch) : \E response \in Responses :
        /\ canonical_topics = {}
        /\ LET mapping == CreateInitialTaxonomy(order, response)
               upd == UpdateTaxonomy(topic_mapping, canonical_topics, mapping)
               d == IF upd.raised THEN EmptyDict ELSE PairsToDict(mapping.pairs)
           IN  /\ topic_mapping' = upd.tm
               /\ canonical_topics' = upd.ct
               /\ raised' = upd.raised
               /\ ret' = d
               /\ Record(batch, d, upd.raised)
        /\ op' = "consolidate_topics"
        /\ path' = "bootstrap"
        /\ new_topics' = batch
        /\ requests' = <<Request("initial", batch, {}, response.kind, EmptyStr)>>
        /\ extraction_results' = <<>>
        /\ mapped_results' = <<>>
        /\ ConsolidatorOnly

\* consolidate_topics with canonical topics: one request per unrecorded topic.
ConsolidateIncremental ==
    \E batch \in Batches \ {{}} : \E order \in Orders(batch) :
    \E answers \in [batch \ DOMAIN topic_mapping -> Answers] :
        /\ canonical_topics # {}
        /\ LET st == Loop([tm |-> topic_mapping, ct |-> canonical_topics,
                           mapping |-> EmptyDict, reqs |-> <<>>], order, answers)
           IN  /\ topic_mapping' = st.tm
               /\ canonical_topics' = st.ct
               /\ ret' = st.mapping
               /\ requests' = st.reqs
               /\ Record(batch, st.mapping, FALSE)
        /\ raised' = FALSE
        /\ op' = "consolidate_topics"
        /\ path' = "incremental"
        /\ new_topics' = batch
        /\ extraction_results' = <<>>
        /\ mapped_results' = <<>>
        /\ ConsolidatorOnly

\* apply_mapping that records the topics it does not know (setdefault).
ApplyRecordsUnknown ==
    \E results \in ExtractionInputs :
        LET unknown == UNION {Range(results[i].topics) : i \in 1..Len(results)}
                           \ DOMAIN topic_mapping
        IN  /\ op' = "apply_mapping"
            /\ path' = "none"
            /\ new_topics' = {}
            /\ ret' = EmptyDict
            /\ raised' = FALSE
            /\ requests' = <<>>
            /\ extraction_results' = results
            /\ mapped_results' = ApplyMapping(topic_mapping, results)
            /\ topic_mapping' = [k \in DOMAIN topic_mapping \cup unknown |->
                                    Get(topic_mapping, k, k)]
            /\ UNCHANGED <<canonical_topics, presented, first_ret>>
            /\ ConsolidatorOnly

\* apply_mapping on a list of extraction records.
Apply ==
    \E results \in ExtractionInputs :
        /\ op' = "apply_mapping"
        /\ path' = "none"
        /\ new_topics' = {}
        /\ ret' = EmptyDict
        /\ raised' = FALSE
        /\ requests' = <<>>
        /\ extraction_results' = results
        /\ mapped_results' = ApplyMapping(topic_mapping, results)
        /\ UNCHANGED <<topic_mapping, canonical_topics, presented, first_ret>>
        /\ ConsolidatorOnly

Next ==
    \/ ConsolidateEmpty
    \/ ConsolidateBootstrap
    \/ ConsolidateIncremental
    \/ Apply

Spec == Init /\ [][Next]_vars

\* ------------------------------------------------------------- main's loop
\* date_key of the day current_date: distinct days give distinct keys.
DateKey(d) == <<"date", d>>

\* get_all_unique_topics.
UniqueTopics(results) == UNION {Range(results[i].topics) : i \in 1..Len(results)}

\* consolidate_topics as a whole: what it can leave and return for a batch,
\* over the iteration orders of the batch and the replies of the model.
ConsolidateTopics(tm, ct, batch) ==
    IF batch = {}
    THEN {[tm |-> tm, ct |-> ct, mapping |-> EmptyDict, raised |-> FALSE,
           reqs |-> <<>>, path |-> "empty"]}
    ELSE IF ct = {}
    THEN {LET mapping == CreateInitialTaxonomy(order, response)
              upd == UpdateTaxonomy(tm, ct, mapping)
          IN  [tm |-> upd.tm, ct |-> upd.ct,
               mapping |-> IF upd.raised THEN EmptyDict ELSE PairsToDict(mapping.pairs),
               raised |-> upd.raised,
               reqs |-> <<Request("initial", batch, {}, response.kind, EmptyStr)>>,
               path |-> "bootstrap"] :
              order \in Orders(batch), response \in Responses}
    ELSE {LET st == Loop([tm |-> tm, ct |-> ct, mapping |-> EmptyDict, reqs |-> <<>>],
                         order, answers)
          IN  [tm |-> st.tm, ct |-> st.ct, mapping |-> st.mapping, raised |-> FALSE,
               reqs |-> st.reqs, path |-> "incremental"] :
              order \in Orders(batch), answers \in [batch \ DOMAIN tm -> Answers]}

\* The number of places of the topic lists of results that hold a topic of S.
Occurrences(results, S) ==
    Cardinality({p \in UNION {{<<i, j>> : j \in 1..Len(results[i].topics)} :
                                  i \in 1..Len(results)} :
                     results[p[1]].topics[p[2]] \in S})

\* add_daily_data: topic_counts, then one assignment per counted topic.
TopicCounts(results) ==
    [t \in UniqueTopics(results) |-> Occurrences(results, {t})]

AddDailyData(tf, date, results) ==
    LET topic_counts == TopicCounts(results)
    IN  [t \in DOMAIN tf \cup DOMAIN topic_counts |->
            IF t \in DOMAIN topic_counts
            THEN DictSet(Get(tf, t, EmptyDict), date, topic_counts[t])
            ELSE tf[t]]

\* The extraction records of a day that has reviews.
DailyResults ==
    {<<FullResult("r1", <<>>)>>,
     <<FullResult("r1", <<Str("A")>>)>>,
     <<FullResult("r1", <<Str("A"), Str("B")>>)>>,
     <<FullResult("r1", <<Str("A")>>), FullResult("r2", <<Str("B"), Str("A")>>)>>}

\* One turn of main's loop on a day with reviews. An exception of
\* consolidate_topics is not caught: it ends the run.
ProcessDay ==
    \E results \in DailyResults :
    \E out \in ConsolidateTopics(topic_mapping, canonical_topics, UniqueTopics(results)) :
        /\ current_date < MaxDays
        /\ ~raised
        /\ op' = "process_day"
        /\ path' = out.path
        /\ new_topics' = UniqueTopics(results)
        /\ topic_mapping' = out.tm
        /\ canonical_topics' = out.ct
        /\ ret' = out.mapping
        /\ raised' = out.raised
        /\ requests' = out.reqs
        /\ Record(UniqueTopics(results), out.mapping, out.raised)
        /\ extraction_results' = results
        /\ TrackAliases
        /\ UNCHANGED <<all_reviews, reviews_by_date, report>>
        /\ IF out.raised
           THEN /\ mapped_results' = <<>>
                /\ UNCHANGED <<topic_frequencies, current_date>>
           ELSE /\ mapped_results' = ApplyMapping(out.tm, results)
                /\ topic_frequencies' =
                       AddDailyData(topic_frequencies, DateKey(current_date),
                                    ApplyMapping(out.tm, results))
                /\ current_date' = current_date + 1

\* One turn of main's loop on a day without reviews.
SkipDay ==
    /\ current_date < MaxDays
    /\ ~raised
    /\ op' = "skip_day"
    /\ path' = "none"
    /\ new_topics' = {}
    /\ ret' = EmptyDict
    /\ raised' = FALSE
    /\ requests' = <<>>
    /\ extraction_results' = <<>>
    /\ mapped_results' = <<>>
    /\ current_date' = current_date + 1
    /\ UNCHANGED <<topic_mapping, canonical_topics, presented, first_ret,
                   topic_frequencies, held_mapping, held_topics,
                   all_reviews, reviews_by_date, report>>

PipelineNext ==
    \/ ProcessDay
    \/ SkipDay

PipelineSpec == Init /\ [][PipelineNext]_vars

\* ----------------------------------------------------------- ReviewScraper
\* A datetime: the day, counted from the day of start_date, and the time of
\* day, 00:00:00 or some later time.
Midnight == 0
Afternoon == 1
TimesOfDay == {Midnight, Afternoon}
DateTime(day, time) == <<day, time>>

\* datetime <= datetime
Leq(a, b) == a[1] < b[1] \/ (a[1] = b[1] /\ a[2] <= b[2])

\* The range main asks for: strptime of a date gives its midnight.
start_date == DateTime(0, Midnight)
target_date == DateTime(MaxDays - 1, Midnight)

\* The reviews the store can hand out: from the day before the range to the
\* day after it.
ReviewTimes == {DateTime(d, t) : d \in (0 - 1)..MaxDays, t \in TimesOfDay}

\* The empty list per day of the range (first loop of
\* scrape_reviews_by_date_range).
RECURSIVE EmptyBuckets(_, _)
EmptyBuckets(current, end) ==
    IF Leq(current, end)
    THEN DictSet(EmptyBuckets(DateTime(current[1] + 1, current[2]), end),
                 DateKey(current[1]), <<>>)
    ELSE EmptyDict

\* The second loop: a review inside the range is appended to the list of
\* its date when the table has that date.
RECURSIVE FillBuckets(_, _, _, _)
FillBuckets(buckets, reviews, start, end) ==
    IF reviews = <<>> THEN buckets
    ELSE LET review == Head(reviews)
             date_key == DateKey(review.at[1])
             placed == IF /\ Leq(start, review.at) /\ Leq(review.at, end)
                          /\ date_key \in DOMAIN buckets
                       THEN DictSet(buckets, date_key,
                                    Append(buckets[date_key],
                                           [reviewId |-> review.reviewId,
                                            at |-> review.at]))
                       ELSE buckets
         IN  FillBuckets(placed, Tail(reviews), start, end)

\* scrape_reviews_by_date_range, after the fetch.
ScrapeReviewsByDateRange(start, end, reviews) ==
    FillBuckets(EmptyBuckets(start, end), reviews, start, end)

\* The store returns one more review.
FetchReview ==
    \E at \in ReviewTimes :
        /\ op # "scrape_reviews_by_date_range"
        /\ Len(all_reviews) < MaxReviews
        /\ all_reviews' = Append(all_reviews,
                                 [reviewId |-> Len(all_reviews) + 1, at |-> at])
        /\ op' = "fetch"
        /\ UNCHANGED <<topic_mapping, canonical_topics, path, new_topics, ret, raised,
                       requests, presented, first_ret, extraction_results,
                       mapped_results, topic_frequencies, current_date, held_mapping,
                       held_topics, reviews_by_date, report>>

\* The scraper organizes what it fetched and returns.
OrganizeReviews ==
    /\ op # "scrape_reviews_by_date_range"
    /\ reviews_by_date' = ScrapeReviewsByDateRange(start_date, target_date, all_reviews)
    /\ op' = "scrape_reviews_by_date_range"
    /\ UNCHANGED <<topic_mapping, canonical_topics, path, new_topics, ret, raised,
                   requests, presented, first_ret, extraction_results,
                   mapped_results, topic_frequencies, current_date, held_mapping,
                   held_topics, all_reviews, report>>

ScraperNext ==
    \/ FetchReview
    \/ OrganizeReviews

ScraperSpec == Init /\ [][ScraperNext]_vars

\* ----------------------------------------------------- TrendAnalyzer reports
\* The sum of dates.get(date, 0) over the days current..end (the while loops
\* of the two reports).
RECURSIVE WindowTotal(_, _, _)
WindowTotal(dates, current, end) ==
    IF current <= end
    THEN Get(dates, DateKey(current), 0) + WindowTotal(dates, current + 1, end)
    ELSE 0

\* A sort key: the fraction num/den, or infinity when den = 0.
Fraction(num, den) == <<num, den>>
Infinity == Fraction(1, 0)
KeyGreater(a, b) ==
    IF a[2] = 0 THEN b[2] # 0
    ELSE IF b[2] = 0 THEN FALSE
    ELSE a[1] * b[2] > b[1] * a[2]

\* sorted(..., reverse=True) over <<key, item>> pairs: descending, items
\* with equal keys in the order they came.
RECURSIVE InsertByKey(_, _)
InsertByKey(sorted, x) ==
    IF sorted = <<>> THEN <<x>>
    ELSE IF KeyGreater(x[1], Head(sorted)[1]) THEN <<x>> \o sorted
    ELSE <<Head(sorted)>> \o InsertByKey(Tail(sorted), x)

RECURSIVE SortedReverse(_)
SortedReverse(items) ==
    IF items = <<>> THEN <<>>
    ELSE InsertByKey(SortedReverse(SubSeq(items, 1, Len(items) - 1)), items[Len(items)])

Items(pairs) == [i \in 1..Len(pairs) |-> pairs[i][2]]

\* list[:n]
Slice(list, n) == SubSeq(list, 1, IF n < Len(list) THEN n ELSE Len(list))

\* The topics of topic_frequencies in the order the dict yields them.
RECURSIVE TrendingTotals(_, _, _, _)
TrendingTotals(tf, order, start, end) ==
    IF order = <<>> THEN <<>>
    ELSE LET topic == Head(order)
             total == WindowTotal(tf[topic], start, end)
             rest == TrendingTotals(tf, Tail(order), start, end)
         IN  IF total > 0
             THEN <<<<Fraction(total, 1), [topic |-> topic, frequency |-> total]>>>> \o rest
             ELSE rest

\* get_trending_topics returning the first top_n topics with a positive
\* total, unsorted.
GetTrendingTopicsUnsorted(tf, order, target, lookback_days, top_n) ==
    Slice(Items(TrendingTotals(tf, order, target - lookback_days, target)), top_n)

\* get_trending_topics.
GetTrendingTopics(tf, order, target, lookback_days, top_n) ==
    Slice(Items(SortedReverse(TrendingTotals(tf, order, target - lookback_days, target))),
          top_n)

\* The smallest recent count that makes a topic without older count emerging.
MinNewVolume == 3

\* The loop of get_emerging_topics with the growth test written >= 0.5.
RECURSIVE EmergingInclusive(_, _, _, _, _)
EmergingInclusive(tf, order, target, recent_days, older_days) ==
    IF order = <<>> THEN <<>>
    ELSE LET topic == Head(order)
             recent_freq == WindowTotal(tf[topic], target - (recent_days - 1), target)
             older_freq == WindowTotal(tf[topic], target - (recent_days + older_days - 1),
                                       target - recent_days)
             rest == EmergingInclusive(tf, Tail(order), target, recent_days, older_days)
         IN  IF older_freq > 0
             THEN IF 2 * (recent_freq - older_freq) >= older_freq
                  THEN <<<<Fraction(recent_freq - older_freq, older_freq),
                           [topic |-> topic, recent_frequency |-> recent_freq,
                            older_frequency |-> older_freq,
                            growth_rate |-> Fraction(recent_freq - older_freq, older_freq)]>>>>
                       \o rest
                  ELSE rest
             ELSE IF recent_freq >= MinNewVolume
                  THEN <<<<Infinity,
                           [topic |-> topic, recent_frequency |-> recent_freq,
                            older_frequency |-> 0, growth_rate |-> Infinity]>>>> \o rest
                  ELSE rest

\* The loop of get_emerging_topics: the entries appended, in order.
\* growth_rate > 0.5 is 2 * (recent - older) > older.
RECURSIVE Emerging(_, _, _, _, _)
Emerging(tf, order, target, recent_days, older_days) ==
    IF order = <<>> THEN <<>>
    ELSE LET topic == Head(order)
             recent_freq == WindowTotal(tf[topic], target - (recent_days - 1), target)
             older_freq == WindowTotal(tf[topic], target - (recent_days + older_days - 1),
                                       target - recent_days)
             rest == Emerging(tf, Tail(order), target, recent_days, older_days)
         IN  IF older_freq > 0
             THEN IF 2 * (recent_freq - older_freq) > older_freq
                  THEN <<<<Fraction(recent_freq - older_freq, older_freq),
                           [topic |-> topic, recent_frequency |-> recent_freq,
                            older_frequency |-> older_freq,
                            growth_rate |-> Fraction(recent_freq - older_freq, older_freq)]>>>>
                       \o rest
                  ELSE rest
             ELSE IF recent_freq >= MinNewVolume
                  THEN <<<<Infinity,
                           [topic |-> topic, recent_frequency |-> recent_freq,
                            older_frequency |-> 0, growth_rate |-> Infinity]>>>> \o rest
                  ELSE rest

\* get_emerging_topics.
GetEmergingTopics(tf, order, target, recent_days, older_days) ==
    Items(SortedReverse(Emerging(tf, order, target, recent_days, older_days)))

\* The mapped records of a day, as add_daily_data gets them.
MappedDays ==
    {<<FullResult("r1", <<>>)>>,
     <<FullResult("r1", <<Str("A"), Str("A"), Str("B")>>)>>,
     <<FullResult("r1", <<Str("A"), Str("A"), Str("B")>>),
       FullResult("r2", <<Str("A"), Str("B")>>)>>,
     <<FullResult("r1", <<Str("B"), Str("C")>>)>>}

\* add_daily_data for the next day.
AddDay ==
    \E results \in MappedDays :
        /\ current_date < MaxTrendDays
        /\ topic_frequencies' = AddDailyData(topic_frequencies, DateKey(current_date), results)
        /\ current_date' = current_date + 1
        /\ op' = "add_daily_data"
        /\ UNCHANGED <<topic_mapping, canonical_topics, path, new_topics, ret, raised,
                       requests, presented, first_ret, extraction_results,
                       mapped_results, held_mapping, held_topics, all_reviews,
                       reviews_by_date, report>>

\* get_trending_topics called once the days are in, as the run's report.
TrendingReport ==
    \E target \in 0..(MaxTrendDays - 1), lookback_days \in 0..MaxTrendDays, top_n \in 0..MaxTopN :
    \E order \in Orders(DOMAIN topic_frequencies) :
        /\ current_date = MaxTrendDays
        /\ report = NoReport
        /\ report' = [fn |-> "get_trending_topics", target_date |-> target,
                      lookback_days |-> lookback_days, top_n |-> top_n,
                      recent_days |-> 0, older_days |-> 0,
                      result |-> GetTrendingTopics(topic_frequencies, order, target,
                                                   lookback_days, top_n)]
        /\ op' = "get_trending_topics"
        /\ UNCHANGED <<topic_mapping, canonical_topics, path, new_topics, ret, raised,
                       requests, presented, first_ret, extraction_results,
                       mapped_results, topic_frequencies, current_date, held_mapping,
                       held_topics, all_reviews, reviews_by_date>>

\* get_emerging_topics called once the days are in, as the run's report.
EmergingReport ==
    \E target \in 0..(MaxTrendDays - 1) :
    \E recent_days, older_days \in 1..(MaxTrendDays - 1) :
    \E order \in Orders(DOMAIN topic_frequencies) :
        /\ current_date = MaxTrendDays
        /\ report = NoReport
        /\ report' = [fn |-> "get_emerging_topics", target_date |-> target,
                      lookback_days |-> 0, top_n |-> 0,
                      recent_days |-> recent_days, older_days |-> older_days,
                      result |-> GetEmergingTopics(topic_frequencies, order, target,
                                                   recent_days, older_days)]
        /\ op' = "get_emerging_topics"
        /\ UNCHANGED <<topic_mapping, canonical_topics, path, new_topics, ret, raised,
                       requests, presented, first_ret, extraction_results,
                       mapped_results, topic_frequencies, current_date, held_mapping,
                       held_topics, all_reviews, reviews_by_date>>

TrendNext ==
    \/ AddDay
    \/ TrendingReport
    \/ EmergingReport

TrendSpec == Init /\ [][TrendNext]_vars

\* ------------------------------------------------------------ the getters
\* get_topic_mapping returning the engine's own dictionary.
GetTopicMappingNoCopy(tm) == [taken |-> TRUE, alias |-> TRUE, value |-> tm]

\* get_topic_mapping: a new dictionary with the entries of topic_mapping.
GetTopicMapping(tm) == [taken |-> TRUE, alias |-> FALSE, value |-> tm]

\* get_canonical_topics: a new set with the elements of canonical_topics.
GetCanonicalTopics(ct) == [taken |-> TRUE, alias |-> FALSE, value |-> ct]

\* A caller asks for both tables, once.
GetSnapshots ==
    /\ ~held_mapping.taken
    /\ held_mapping' = GetTopicMapping(topic_mapping)
    /\ held_topics' = GetCanonicalTopics(canonical_topics)
    /\ op' = "get"
    /\ path' = "none"
    /\ new_topics' = {}
    /\ ret' = EmptyDict
    /\ raised' = FALSE
    /\ requests' = <<>>
    /\ extraction_results' = <<>>
    /\ mapped_results' = <<>>
    /\ UNCHANGED <<topic_mapping, canonical_topics, presented, first_ret,
                   topic_frequencies, current_date,
                   all_reviews, reviews_by_date, report>>

\* What a caller can do to a dictionary and to a set it holds.
DictMutations(d) == {EmptyDict, DictSet(d, Str("A"), Str("C"))}
SetMutations(S) == {{}, S \cup {Str("C")}}

\* The caller changes the dictionary it holds; the engine's dictionary
\* changes with it when it is the same object.
MutateHeldMapping ==
    /\ held_mapping.taken
    /\ \E d \in DictMutations(held_mapping.value) :
        /\ d # held_mapping.value
        /\ held_mapping' = [held_mapping EXCEPT !.value = d]
        /\ topic_mapping' = IF held_mapping.alias THEN d ELSE topic_mapping
        /\ op' = "mutate_held"
        /\ path' = "none"
        /\ new_topics' = {}
        /\ ret' = EmptyDict
        /\ raised' = FALSE
        /\ requests' = <<>>
        /\ extraction_results' = <<>>
        /\ mapped_results' = <<>>
        /\ UNCHANGED <<canonical_topics, held_topics, presented, first_ret,
                       topic_frequencies, current_date,
                       all_reviews, reviews_by_date, report>>

\* The caller changes the set it holds; the engine's set changes with it
\* when it is the same object.
MutateHeldTopics ==
    /\ held_topics.taken
    /\ \E S \in SetMutations(held_topics.value) :
        /\ S # held_topics.value
        /\ held_topics' = [held_topics EXCEPT !.value = S]
        /\ canonical_topics' = IF held_topics.alias THEN S ELSE canonical_topics
        /\ op' = "mutate_held"
        /\ path' = "none"
        /\ new_topics' = {}
        /\ ret' = EmptyDict
        /\ raised' = FALSE
        /\ requests' = <<>>
        /\ extraction_results' = <<>>
        /\ mapped_results' = <<>>
        /\ UNCHANGED <<topic_mapping, held_mapping, presented, first_ret,
                       topic_frequencies, current_date,
                       all_reviews, reviews_by_date, report>>

\* The calls of consolidate_topics made next to a caller that holds the
\* tables: batches of one topic at most.
SnapshotBatches == {{}, {Str("A")}}

SnapshotNext ==
    \/ ConsolidateEmpty
    \/ ConsolidateBootstrap /\ new_topics' \in SnapshotBatches
    \/ ConsolidateIncremental /\ new_topics' \in SnapshotBatches
    \/ GetSnapshots
    \/ MutateHeldMapping
    \/ MutateHeldTopics

SnapshotSpec == Init /\ [][SnapshotNext]_vars

\* ------------------------------------------------------------ properties
\* The requests of a call that ask about topic t.
Asked(reqs, t) == {i \in DOMAIN reqs : t \in reqs[i].topics}

\* The one topic of a single-topic request.
TopicOf(r) == CHOOSE t \in r.topics : TRUE

\* The reply to a single-topic request, once cleaned, names an offered
\* canonical topic or the topic asked about.
InDomain(r) ==
    /\ r.outcome = "text"
    /\ CleanAnswer(r.text) \in r.candidates \cup r.topics

\* C1: once a raw topic is a key of topic_mapping, its canonical value is the
\* same in every later state, whatever calls follow and whatever the matcher
\* answers.
C1_NoReassignment ==
    [][\A t \in DOMAIN topic_mapping :
           t \in DOMAIN topic_mapping' /\ topic_mapping'[t] = topic_mapping[t]]_vars

\* C2: when a raw topic of the batch was in an earlier batch, the call sends
\* no request about it and returns for it the value the first call returned.
C2_SecondCallReuses ==
    [][op' = "consolidate_topics" =>
           \A t \in new_topics' \cap presented :
               /\ Asked(requests', t) = {}
               /\ first_ret[t] # NoValue
               /\ Returned(ret', raised', t) = first_ret[t]]_vars

\* C3: after consolidate_topics on a non-empty batch, the returned mapping has
\* exactly the batch's topics as keys and every value in it is a canonical
\* topic.
C3_Totality ==
    (op = "consolidate_topics" /\ new_topics # {}) =>
        /\ ~raised
        /\ DOMAIN ret = new_topics
        /\ Range(ret) \subseteq canonical_topics

\* C4: in the incremental case the value recorded for a topic sent to the
\* matcher is a canonical topic offered in that request or the topic
\* itself, and it is the topic itself whenever the reply is anything else.
C4_AnswerValidated ==
    path = "incremental" =>
        \A i \in DOMAIN requests :
            LET r == requests[i]
                t == TopicOf(r)
            IN  /\ topic_mapping[t] \in r.candidates \cup {t}
                /\ ~InDomain(r) => topic_mapping[t] = t
                /\ (r.outcome = "text" /\ ~InDomain(r)) =>
                       topic_mapping[t] # CleanAnswer(r.text)

C4_Witness ==
    /\ path = "incremental"
    /\ \E i \in DOMAIN requests :
           /\ requests[i].outcome = "text"
           /\ CleanAnswer(requests[i].text) \in Topics
           /\ ~InDomain(requests[i])
           /\ requests[i].candidates # {}
           /\ topic_mapping[TopicOf(requests[i])] = TopicOf(requests[i])

\* C5: when the first batch's request fails (an error, or a reply that is no
\* JSON object), consolidate_topics raises nothing, returns the identity
\* mapping over the batch, records every pair, and the canonical topics are
\* the batch.
C5_BootstrapFallback ==
    (path = "bootstrap" /\ requests[1].outcome # "object") =>
        /\ ~raised
        /\ ret = [t \in new_topics |-> t]
        /\ \A t \in new_topics : t \in DOMAIN topic_mapping /\ topic_mapping[t] = t
        /\ canonical_topics = new_topics

\* C6: in the incremental case the call returns normally with an entry for
\* every topic of the batch, all recorded, and a topic whose request failed,
\* got an empty reply or an out-of-domain reply is its own canonical topic.
C6_IncrementalDegrades ==
    path = "incremental" =>
        /\ ~raised
        /\ DOMAIN ret = new_topics
        /\ \A t \in new_topics : t \in DOMAIN topic_mapping /\ ret[t] = topic_mapping[t]
        /\ \A i \in DOMAIN requests :
               LET r == requests[i]
                   t == TopicOf(r)
               IN  (r.outcome = "error" \/ r.text = EmptyStr \/ ~InDomain(r)) =>
                       topic_mapping[t] = t /\ ret[t] = t

\* C7: the canonical topics are exactly the values of topic_mapping.
C7_CanonicalIsRange == canonical_topics = Range(topic_mapping)

\* C8: every raw topic that was in a batch passed to consolidate_topics is a
\* key of topic_mapping.
C8_PresentedRecorded == presented \subseteq DOMAIN topic_mapping

\* C9: consolidate_topics with an empty batch returns an empty mapping, sends
\* no request and leaves topic_mapping and canonical_topics as they were.
C9_EmptyBatchNoEffect ==
    [][(op' = "consolidate_topics" /\ new_topics' = {}) =>
           /\ ret' = EmptyDict
           /\ ~raised'
           /\ requests' = <<>>
           /\ UNCHANGED <<topic_mapping, canonical_topics>>]_vars

C9_Witness ==
    /\ op = "consolidate_topics"
    /\ new_topics = {}
    /\ topic_mapping # EmptyDict
    /\ canonical_topics # {}

\* C10: consolidate_topics on a non-empty batch sends one request for the
\* whole batch when there was no canonical topic, and otherwise one request
\* for each topic of the batch that was not yet a key and none for the others.
C10_RequestsPerCall ==
    [][(op' = "consolidate_topics" /\ new_topics' # {}) =>
           IF canonical_topics = {}
           THEN /\ Len(requests') = 1
                /\ requests'[1].kind = "initial"
                /\ requests'[1].topics = new_topics'
           ELSE /\ \A i \in DOMAIN requests' :
                       /\ requests'[i].kind = "match"
                       /\ Cardinality(requests'[i].topics) = 1
                /\ \A t \in new_topics' :
                       Cardinality(Asked(requests', t)) =
                           IF t \in DOMAIN topic_mapping THEN 0 ELSE 1
                /\ Len(requests') = Cardinality(new_topics' \ DOMAIN topic_mapping)]_vars

C10_Witness ==
    /\ path = "incremental"
    /\ Cardinality(new_topics) = 2
    /\ Len(requests) = 1

\* C11: apply_mapping returns one record per input record, in order; each
\* topic list keeps its length and order, a topic that is a key of
\* topic_mapping is replaced by its value and any other topic is kept; the
\* review id, the review text and the rationale are those of the input.
C11_ApplyRewritesTopics ==
    op = "apply_mapping" =>
        /\ Len(mapped_results) = Len(extraction_results)
        /\ \A i \in 1..Len(extraction_results) :
               LET in == extraction_results[i]
                   out == mapped_results[i]
               IN  /\ out.review_id = in.review_id
                   /\ Len(out.topics) = Len(in.topics)
                   /\ \A j \in 1..Len(in.topics) :
                          out.topics[j] = IF in.topics[j] \in DOMAIN topic_mapping
                                          THEN topic_mapping[in.topics[j]]
                                          ELSE in.topics[j]
                   /\ "content" \in DOMAIN in => out.content = in.content
                   /\ "reasoning" \in DOMAIN in => out.reasoning = in.reasoning

C11_Witness ==
    /\ op = "apply_mapping"
    /\ Len(extraction_results) = 2
    /\ \E i \in 1..Len(extraction_results) :
       \E j, k \in 1..Len(extraction_results[i].topics) :
           /\ extraction_results[i].topics[j] \notin DOMAIN topic_mapping
           /\ extraction_results[i].topics[k] \in DOMAIN topic_mapping
           /\ mapped_results[i].topics[k] # extraction_results[i].topics[k]

\* C12: apply_mapping sends no request and leaves topic_mapping and
\* canonical_topics as they were.
C12_ApplyNoEffect ==
    [][op' = "apply_mapping" =>
           /\ requests' = <<>>
           /\ UNCHANGED <<topic_mapping, canonical_topics>>]_vars

C12_Witness ==
    /\ op = "apply_mapping"
    /\ canonical_topics # {}
    /\ \E i \in 1..Len(extraction_results) :
           Range(extraction_results[i].topics) \ DOMAIN topic_mapping # {}

\* C13: applying the mapping to the result of apply_mapping changes nothing.
C13_ApplyIdempotent ==
    op = "apply_mapping" =>
        ApplyMapping(topic_mapping, mapped_results) = mapped_results

\* The canonical topics right after the topic of request i was processed:
\* what the next request of the call offered, or the set the call left.
CandidatesAfter(reqs, i, final) ==
    IF i < Len(reqs) THEN reqs[i + 1].candidates ELSE final

\* The matcher answered a single-topic request with one of the canonical
\* topics it was offered.
ReturnedExisting(r) ==
    /\ r.outcome = "text"
    /\ CleanAnswer(r.text) \in r.candidates

\* C14: an incremental call changes no entry that was recorded and adds one
\* entry for each topic it asked the matcher about and no other; processing
\* such a topic leaves canonical_topics as it was when the matcher returned
\* one of the offered canonical topics, and adds the raw topic itself to it
\* otherwise.
C14_OneEntryPerNewTopic ==
    [][path' = "incremental" =>
           /\ \A t \in DOMAIN topic_mapping :
                  t \in DOMAIN topic_mapping' /\ topic_mapping'[t] = topic_mapping[t]
           /\ DOMAIN topic_mapping' \ DOMAIN topic_mapping =
                  {TopicOf(requests'[i]) : i \in DOMAIN requests'}
           /\ Cardinality(DOMAIN topic_mapping' \ DOMAIN topic_mapping) = Len(requests')
           /\ requests' = <<>> => canonical_topics' = canonical_topics
           /\ requests' # <<>> => requests'[1].candidates = canonical_topics
           /\ \A i \in DOMAIN requests' :
                  CandidatesAfter(requests', i, canonical_topics') =
                      IF ReturnedExisting(requests'[i])
                      THEN requests'[i].candidates
                      ELSE requests'[i].candidates \cup requests'[i].topics]_vars

C14_Witness ==
    /\ path = "incremental"
    /\ Len(requests) = 2
    /\ ReturnedExisting(requests[2])
    /\ ~ReturnedExisting(requests[1])
    /\ TopicOf(requests[1]) \notin requests[1].candidates
    /\ topic_mapping[TopicOf(requests[2])] # TopicOf(requests[2])
    /\ canonical_topics = requests[2].candidates

\* C20: in an incremental call the first request offers canonical_topics as
\* the call found it, and each later request offers what the request before
\* it offered together with the canonical topic recorded for that earlier
\* topic; an answer naming any topic of the offered set is the value
\* recorded, so a later topic can be mapped to a canonical topic created
\* earlier in the same call.
C20_CandidatesGrowWithinCall ==
    [][path' = "incremental" =>
           \A i \in DOMAIN requests' :
               LET r == requests'[i]
               IN  /\ r.candidates =
                          IF i = 1 THEN canonical_topics
                          ELSE requests'[i - 1].candidates
                                   \cup {topic_mapping'[TopicOf(requests'[i - 1])]}
                   /\ ReturnedExisting(r) =>
                          topic_mapping'[TopicOf(r)] = CleanAnswer(r.text)]_vars

C20_Witness ==
    /\ path = "incremental"
    /\ Len(requests) = 2
    /\ TopicOf(requests[1]) \notin requests[1].candidates
    /\ topic_mapping[TopicOf(requests[2])] = TopicOf(requests[1])
    /\ TopicOf(requests[2]) # TopicOf(requests[1])

\* C16 as stated: every canonical topic is a raw topic that was in a batch
\* and is recorded as its own canonical topic (a topic the matcher chose
\* from the existing set is already of that kind).
C16_CanonicalFromRawOrSet ==
    canonical_topics \subseteq
        {t \in presented : t \in DOMAIN topic_mapping /\ topic_mapping[t] = t}

\* C16, amended: a canonical topic enters canonical_topics either as a value
\* recorded from the reply to the whole-batch request, whatever name the
\* model gave it, or, in an incremental call, as a raw topic of the batch
\* that was not yet recorded and is recorded as its own canonical topic.
C16_CanonicalOrigin ==
    [][canonical_topics' \ canonical_topics \subseteq
           IF path' = "bootstrap"
           THEN Range(topic_mapping')
           ELSE {t \in new_topics' \ DOMAIN topic_mapping :
                     t \in DOMAIN topic_mapping' /\ topic_mapping'[t] = t}]_vars

C16_Witness ==
    /\ path = "bootstrap"
    /\ ~raised
    /\ DOMAIN ret = new_topics
    /\ \E c \in canonical_topics : c \notin presented /\ c \in Range(ret)

\* C17: a call that would record an already recorded raw topic with another
\* canonical topic raises and leaves the entry as it was.
C17_RerecordFails ==
    [][\A t \in DOMAIN topic_mapping :
           /\ t \in DOMAIN topic_mapping' /\ topic_mapping'[t] = topic_mapping[t]
           /\ (t \in DOMAIN ret' /\ ret'[t] # topic_mapping[t]) => raised']_vars

\* C19: with the matcher's answer fixed for each topic, the loop of an
\* incremental call leaves the same topic_mapping and canonical_topics for
\* every order of the batch.
C19_OrderIndependent ==
    canonical_topics # {} =>
        \A batch \in Batches :
        \A answers \in [batch \ DOMAIN topic_mapping -> Answers] :
        \A o1, o2 \in Orders(batch) :
            LET st == [tm |-> topic_mapping, ct |-> canonical_topics,
                       mapping |-> EmptyDict, reqs |-> <<>>]
                r1 == Loop(st, o1, answers)
                r2 == Loop(st, o2, answers)
            IN  r1.tm = r2.tm /\ r1.ct = r2.ct

\* The count read from topic_frequencies for a topic and a date; a pair that
\* was never stored reads as 0.
Frequency(tf, topic, date) ==
    IF topic \in DOMAIN tf /\ date \in DOMAIN tf[topic] THEN tf[topic][date] ELSE 0

\* C15: after main has processed a day, the frequency stored for a canonical
\* topic on that date is the number of topic occurrences in the day's
\* extraction records whose raw topic topic_mapping maps to it.
C15_FrequencyIsMappedCount ==
    (op = "process_day" /\ ~raised) =>
        \A c \in canonical_topics :
            Frequency(topic_frequencies, c, DateKey(current_date - 1)) =
                Occurrences(extraction_results,
                            {t \in DOMAIN topic_mapping : topic_mapping[t] = c})

\* C18: what a caller does to the dictionary or the set it got from a getter
\* leaves topic_mapping and canonical_topics as they were, a call of
\* consolidate_topics leaves the objects the caller holds as they were, and
\* a getter hands out the engine's current value.
C18_SnapshotsAreCopies ==
    [][/\ op' = "mutate_held" => UNCHANGED <<topic_mapping, canonical_topics>>
       /\ op' = "consolidate_topics" => UNCHANGED <<held_mapping, held_topics>>
       /\ op' = "get" => /\ held_mapping'.value = topic_mapping
                         /\ held_topics'.value = canonical_topics
                         /\ UNCHANGED <<topic_mapping, canonical_topics>>]_vars

C18_Witness ==
    /\ op = "consolidate_topics"
    /\ held_mapping.taken
    /\ topic_mapping # EmptyDict
    /\ held_mapping.value # topic_mapping
    /\ DOMAIN topic_mapping \cap DOMAIN held_mapping.value # {}
    /\ held_topics.value \notin {canonical_topics, {}}

\* C21: the whole-batch request is made only for the first non-empty batch
\* ever passed, and the call that makes it leaves canonical_topics non-empty,
\* so that every later non-empty batch takes the incremental path.
C21_BootstrapOnce ==
    [][path' = "bootstrap" => (presented = {} /\ canonical_topics' # {})]_vars

\* C22: topic_mapping and canonical_topics are empty at creation, and no step
\* removes a key of topic_mapping or an element of canonical_topics.
C22_StoreOnlyGrows ==
    /\ topic_mapping = EmptyDict /\ canonical_topics = {}
    /\ [][/\ DOMAIN topic_mapping \subseteq DOMAIN topic_mapping'
          /\ canonical_topics \subseteq canonical_topics']_vars

C22_Witness ==
    /\ path = "incremental"
    /\ Len(requests) = 1
    /\ Cardinality(DOMAIN topic_mapping) >= 2
    /\ Cardinality(canonical_topics) >= 2
    /\ TopicOf(requests[1]) \in canonical_topics

\* C23: when consolidate_topics returns, every pair of the mapping it
\* returns is a pair of topic_mapping.
C23_ReturnedIsStored ==
    (op = "consolidate_topics" /\ ~raised) =>
        \A t \in DOMAIN ret : t \in DOMAIN topic_mapping /\ topic_mapping[t] = ret[t]

C23_Witness ==
    /\ path = "incremental"
    /\ Cardinality(DOMAIN ret) = 2
    /\ Len(requests) = 1
    /\ \E t \in DOMAIN ret : ret[t] # t

\* C24: every turn of main's loop moves on to the next date; on a date with
\* reviews it has consolidated the day's unique topics, applied the
\* resulting table to the day's records and added the result to the
\* analyzer under that date; on a date without reviews it has sent no
\* request and changed neither the store nor the analyzer.
C24_DailyLoopSequential ==
    [][/\ current_date' = current_date + 1
       /\ op' = "process_day" =>
              /\ ~raised'
              /\ new_topics' = UniqueTopics(extraction_results')
              /\ mapped_results' = ApplyMapping(topic_mapping', extraction_results')
              /\ topic_frequencies' =
                     AddDailyData(topic_frequencies, DateKey(current_date), mapped_results')
       /\ op' = "skip_day" =>
              /\ requests' = <<>>
              /\ UNCHANGED <<topic_mapping, canonical_topics, topic_frequencies>>]_vars

\* The dates whose list in the table holds the review.
BucketsOf(table, review) ==
    {k \in DOMAIN table :
        \E j \in 1..Len(table[k]) : table[k][j].reviewId = review.reviewId}

\* C25: once the scraper has returned, a fetched review whose day lies
\* between the day of start_date and the day of target_date is in the list
\* of its own date and in no other, whatever its time of day, and a review
\* of any other day is in no list.
C25_ReviewsBucketedByDay ==
    op = "scrape_reviews_by_date_range" =>
        \A i \in 1..Len(all_reviews) :
            LET review == all_reviews[i]
                day == review.at[1]
            IN  BucketsOf(reviews_by_date, review) =
                    IF start_date[1] <= day /\ day <= target_date[1]
                    THEN {DateKey(day)}
                    ELSE {}

\* The stored counts of a topic summed over a set of days.
RECURSIVE SumOverDays(_, _, _)
SumOverDays(tf, topic, days) ==
    IF days = {} THEN 0
    ELSE LET d == CHOOSE x \in days : TRUE
         IN  Frequency(tf, topic, DateKey(d)) + SumOverDays(tf, topic, days \ {d})

\* C26: get_emerging_topics reports a topic exactly when its count over the
\* older_days days before the recent window is positive and the count over
\* the recent_days days ending at the target date is more than 1.5 times
\* it, or the older count is zero and the recent count is at least 3; each
\* reported topic appears once with those two counts, and the entries are in
\* non-increasing order of growth rate, topics without older count first.
C26_EmergingTopics ==
    op = "get_emerging_topics" =>
        LET T == report.target_date
            recent(t) == SumOverDays(topic_frequencies, t,
                                     (T - report.recent_days + 1)..T)
            older(t) == SumOverDays(topic_frequencies, t,
                                    (T - report.recent_days - report.older_days + 1)
                                        ..(T - report.recent_days))
            emerging == {t \in DOMAIN topic_frequencies :
                            \/ older(t) > 0 /\ 2 * recent(t) > 3 * older(t)
                            \/ older(t) = 0 /\ recent(t) >= 3}
            res == report.result
        IN  /\ {res[i].topic : i \in 1..Len(res)} = emerging
            /\ Len(res) = Cardinality(emerging)
            /\ \A i \in 1..Len(res) :
                   /\ res[i].recent_frequency = recent(res[i].topic)
                   /\ res[i].older_frequency = older(res[i].topic)
            /\ \A i, j \in 1..Len(res) :
                   i < j =>
                       /\ res[i].older_frequency # 0 => res[j].older_frequency # 0
                       /\ (res[i].older_frequency # 0 /\ res[j].older_frequency # 0) =>
                              (res[i].recent_frequency - res[i].older_frequency)
                                      * res[j].older_frequency
                                  >= (res[j].recent_frequency - res[j].older_frequency)
                                         * res[i].older_frequency

C26_Witness ==
    /\ op = "get_emerging_topics"
    /\ Len(report.result) = 2
    /\ report.result[1].older_frequency = 0
    /\ report.result[2].older_frequency > 0
    /\ report.recent_days = 2
    /\ \E t \in DOMAIN topic_frequencies :
           \A i \in 1..Len(report.result) : report.result[i].topic # t

\* C27: get_trending_topics returns at most top_n entries, each for a
\* different topic with the sum of its stored counts over the days
\* target - lookback_days .. target, which is positive; the entries are in
\* non-increasing order of that sum, and no topic left out has a larger sum
\* than a topic returned.
C27_TrendingTopics ==
    op = "get_trending_topics" =>
        LET T == report.target_date
            total(t) == SumOverDays(topic_frequencies, t, (T - report.lookback_days)..T)
            res == report.result
            returned == {res[i].topic : i \in 1..Len(res)}
        IN  /\ Len(res) <= report.top_n
            /\ Cardinality(returned) = Len(res)
            /\ returned \subseteq DOMAIN topic_frequencies
            /\ \A i \in 1..Len(res) :
                   res[i].frequency = total(res[i].topic) /\ res[i].frequency > 0
            /\ \A i, j \in 1..Len(res) : i < j => res[i].frequency >= res[j].frequency
            /\ \A t \in DOMAIN topic_frequencies \ returned :
                   \A i \in 1..Len(res) : total(t) <= res[i].frequency

C27_Witness ==
    /\ op = "get_trending_topics"
    /\ Cardinality(DOMAIN topic_frequencies) = 3
    /\ report.top_n = 2
    /\ Len(report.result) = 2
    /\ report.result[1].frequency > report.result[2].frequency
    /\ report.lookback_days = 1
    /\ report.target_date = 2
    /\ \E t \in DOMAIN topic_frequencies :
           /\ Frequency(topic_frequencies, t, DateKey(0)) > 0
           /\ \A i \in 1..2 : report.result[i].topic # t
====
